---- MODULE Spec2Model ----
(***************************************************************************)
(* A model of CyclicList<T> (src/src/cyclic_list.rs): a ring of heap nodes *)
(* linked through raw left/right pointers, a cursor `nodes` and a counter  *)
(* `len`.  The heap is modelled explicitly: every node has an address, and *)
(* allocation picks any free address.                                      *)
(***************************************************************************)
EXTENDS Integers, Sequences, FiniteSets

\* ------------------------------------------------------------------ bounds
MaxNodes == 3     \* number of heap addresses a node can be allocated at
MaxVal == 2       \* element values are 1..MaxVal
MaxN == 4         \* largest n handed to move_right_n / move_left_n
MaxAbsent == 2    \* calls of next() followed after an iterator has run out
MaxPushes == 4    \* pushes followed while the values pushed and popped are tallied

None == 0         \* Option::None (an absent pointer, an absent element)

NodeIds == 1..MaxNodes
Values == 1..MaxVal

VARIABLES
    heap,   \* address -> Node {left, right, element} and whether it is allocated
    list,   \* the CyclicList {nodes, len}
    last,   \* the last call: its name, its argument, what it returned
    pre,    \* heap and list as they were before the last call
    mode,   \* "init" | "run" | "iter" | "dropped" | "cloned" | "borrowed" |
            \* "built" | "pop_left" | "pop_move_left" | "counted"
    other,  \* the second CyclicList value (the result of clone())
    out,    \* the items an iterator has produced so far
    snap,   \* the ring's elements, clockwise from the cursor, when iteration began
    iter,   \* the borrowing iterator Iter {list, consumed}
    ledger, \* how many times each value has been pushed, and returned by a pop
    absent, \* how many times the iterator in use has answered absent
    stale,  \* the lists ("list", "other") whose cursor points at a freed node
    ub      \* TRUE once a freed node has been dereferenced

vars == <<heap, list, last, pre, mode, other, out, snap, iter, absent, ledger, stale, ub>>

\* ------------------------------------------------------------------- heap
\* Memory that holds no node.
FreeCell == [left |-> None, right |-> None, element |-> None, live |-> FALSE]

EmptyHeap == [n \in NodeIds |-> FreeCell]

FreeNodes(h) == {n \in NodeIds : ~h[n].live}

LiveNodes(h) == {n \in NodeIds : h[n].live}

\* Box::from_raw(..) dropped at the end of Node::pop_*: the node's memory is
\* returned to the allocator.
Dealloc(h, n) == [h EXCEPT ![n] = FreeCell]

\* Node::new: a boxed node at address n, linked to itself on both sides.
Node_new(h, n, element) ==
    [h EXCEPT ![n] = [left |-> n, right |-> n, element |-> element, live |-> TRUE]]

\* Node::push_right without `self.right.as_mut().left = node`.
Node_push_right_unlinked(h, self, n, element) ==
    LET h0 == Node_new(h, n, element)
        h2 == [h0 EXCEPT ![n].right = h0[self].right]
        h3 == [h2 EXCEPT ![n].left = self]
    IN  [h3 EXCEPT ![self].right = n]

\* Node::push_right with `node.as_mut().right = self.into()`: the new node's
\* right link goes back to self.
Node_push_right_short_circuit(h, self, n, element) ==
    LET h0 == Node_new(h, n, element)
        h1 == [h0 EXCEPT ![h0[self].right].left = n]
        h2 == [h1 EXCEPT ![n].right = self]
        h3 == [h2 EXCEPT ![n].left = self]
    IN  [h3 EXCEPT ![self].right = n]

\* Node::push_right, statement by statement; n is the address Node::new gets.
Node_push_right(h, self, n, element) ==
    LET h0 == Node_new(h, n, element)
        h1 == [h0 EXCEPT ![h0[self].right].left = n]
        h2 == [h1 EXCEPT ![n].right = h1[self].right]
        h3 == [h2 EXCEPT ![n].left = self]
    IN  [h3 EXCEPT ![self].right = n]

\* Node::push_left without `self.left.as_mut().right = node`.
Node_push_left_unlinked(h, self, n, element) ==
    LET h0 == Node_new(h, n, element)
        h2 == [h0 EXCEPT ![n].left = h0[self].left]
        h3 == [h2 EXCEPT ![n].right = self]
    IN  [h3 EXCEPT ![self].left = n]

\* Node::push_left, statement by statement.
Node_push_left(h, self, n, element) ==
    LET h0 == Node_new(h, n, element)
        h1 == [h0 EXCEPT ![h0[self].left].right = n]
        h2 == [h1 EXCEPT ![n].left = h1[self].left]
        h3 == [h2 EXCEPT ![n].right = self]
    IN  [h3 EXCEPT ![self].left = n]

\* Node::pop_right without `ret.left.as_mut().right = ret.right`.
Node_pop_right_half(h, self) ==
    LET ret == h[self].right
        h1  == [h EXCEPT ![h[ret].right].left = h[ret].left]
    IN  [heap |-> Dealloc(h1, ret), ret |-> h1[ret].element]

\* Node::pop_right without the drop of the box: the node stays allocated.
Node_pop_right_leak(h, self) ==
    LET ret == h[self].right
        h1  == [h EXCEPT ![h[ret].right].left = h[ret].left]
        h2  == [h1 EXCEPT ![h1[ret].left].right = h1[ret].right]
    IN  [heap |-> h2, ret |-> h2[ret].element]

\* Node::pop_right returning self's element instead of the removed node's.
Node_pop_right_own_element(h, self) ==
    LET ret == h[self].right
        h1  == [h EXCEPT ![h[ret].right].left = h[ret].left]
        h2  == [h1 EXCEPT ![h1[ret].left].right = h1[ret].right]
    IN  [heap |-> Dealloc(h2, ret), ret |-> h2[self].element]

\* Node::pop_right: unlink self.right, free it, return its element.
Node_pop_right(h, self) ==
    LET ret == h[self].right
        h1  == [h EXCEPT ![h[ret].right].left = h[ret].left]
        h2  == [h1 EXCEPT ![h1[ret].left].right = h1[ret].right]
    IN  [heap |-> Dealloc(h2, ret), ret |-> h2[ret].element]

\* Node::pop_left returning self's element instead of the removed node's.
Node_pop_left_own_element(h, self) ==
    LET ret == h[self].left
        h1  == [h EXCEPT ![h[ret].left].right = h[ret].right]
        h2  == [h1 EXCEPT ![h1[ret].right].left = h1[ret].left]
    IN  [heap |-> Dealloc(h2, ret), ret |-> h2[self].element]

\* Node::pop_left without `ret.right.as_mut().left = ret.left`.
Node_pop_left_half(h, self) ==
    LET ret == h[self].left
        h1  == [h EXCEPT ![h[ret].left].right = h[ret].right]
    IN  [heap |-> Dealloc(h1, ret), ret |-> h1[ret].element]

\* Node::pop_left: unlink self.left, free it, return its element.
Node_pop_left(h, self) ==
    LET ret == h[self].left
        h1  == [h EXCEPT ![h[ret].left].right = h[ret].right]
        h2  == [h1 EXCEPT ![h1[ret].right].left = h1[ret].left]
    IN  [heap |-> Dealloc(h2, ret), ret |-> h2[ret].element]

\* Node::current / Node::right / Node::left.
Node_current(h, self) == h[self].element
Node_right(h, self) == h[h[self].right].element
Node_left(h, self) == h[h[self].left].element

\* ------------------------------------------------------------- CyclicList
\* What a call gives back: the list, the heap and the returned value.
Res(L, h, r) == [list |-> L, heap |-> h, ret |-> r]

\* CyclicList::new.
new == [nodes |-> None, len |-> 0]

is_empty(L) == L.nodes = None

len(L) == L.len

current(L, h) == IF L.nodes = None THEN None ELSE Node_current(h, L.nodes)
right(L, h) == IF L.nodes = None THEN None ELSE Node_right(h, L.nodes)
left(L, h) == IF L.nodes = None THEN None ELSE Node_left(h, L.nodes)
current_mut(L, h) == IF L.nodes = None THEN None ELSE Node_current(h, L.nodes)
right_mut(L, h) == IF L.nodes = None THEN None ELSE Node_right(h, L.nodes)
left_mut(L, h) == IF L.nodes = None THEN None ELSE Node_left(h, L.nodes)

\* CyclicList::push_right without `self.len += 1`.
push_right_no_count(L, h, n, el) ==
    IF L.nodes # None
    THEN Res(L, Node_push_right(h, L.nodes, n, el), None)
    ELSE Res([L EXCEPT !.nodes = n], Node_new(h, n, el), None)

\* CyclicList::push_right calling Node::push_left.
push_right_on_left(L, h, n, el) ==
    LET L1 == [L EXCEPT !.len = L.len + 1]
    IN  IF L1.nodes # None
        THEN Res(L1, Node_push_left(h, L1.nodes, n, el), None)
        ELSE Res([L1 EXCEPT !.nodes = n], Node_new(h, n, el), None)

\* CyclicList::push_right; n is the address Node::new gets.
push_right(L, h, n, el) ==
    LET L1 == [L EXCEPT !.len = L.len + 1]
    IN  IF L1.nodes # None
        THEN Res(L1, Node_push_right(h, L1.nodes, n, el), None)
        ELSE Res([L1 EXCEPT !.nodes = n], Node_new(h, n, el), None)

\* CyclicList::push_left without `self.len += 1`.
push_left_no_count(L, h, n, el) ==
    IF L.nodes # None
    THEN Res(L, Node_push_left(h, L.nodes, n, el), None)
    ELSE Res([L EXCEPT !.nodes = n], Node_new(h, n, el), None)

push_left(L, h, n, el) ==
    LET L1 == [L EXCEPT !.len = L.len + 1]
    IN  IF L1.nodes # None
        THEN Res(L1, Node_push_left(h, L1.nodes, n, el), None)
        ELSE Res([L1 EXCEPT !.nodes = n], Node_new(h, n, el), None)

\* CyclicList::move_right leaving self.nodes as it is.
move_right_stay(L, h) == Res(L, h, None)

move_right(L, h) ==
    Res([L EXCEPT !.nodes = IF L.nodes = None THEN None ELSE h[L.nodes].right], h, None)

\* CyclicList::move_left following the right link.
move_left_to_right(L, h) ==
    Res([L EXCEPT !.nodes = IF L.nodes = None THEN None ELSE h[L.nodes].right], h, None)

move_left(L, h) ==
    Res([L EXCEPT !.nodes = IF L.nodes = None THEN None ELSE h[L.nodes].left], h, None)

push_move_right(L, h, n, el) ==
    LET r == push_right(L, h, n, el) IN move_right(r.list, r.heap)

\* CyclicList::push_move_left without the move.
push_move_left_no_move(L, h, n, el) == push_left(L, h, n, el)

push_move_left(L, h, n, el) ==
    LET r == push_left(L, h, n, el) IN move_left(r.list, r.heap)

into_right(L, h) == move_right(L, h)

into_left(L, h) == move_left(L, h)

push_into_right(L, h, n, el) ==
    LET r == push_right(L, h, n, el) IN into_right(r.list, r.heap)

push_into_left(L, h, n, el) ==
    LET r == push_left(L, h, n, el) IN into_left(r.list, r.heap)

RECURSIVE move_right_n(_, _, _)
move_right_n(L, h, n) ==
    IF n = 0 THEN Res(L, h, None)
    ELSE LET r == move_right(L, h) IN move_right_n(r.list, r.heap, n - 1)

\* CyclicList::move_left_n over 0..=n.
RECURSIVE move_left_n_inclusive(_, _, _)
move_left_n_inclusive(L, h, n) ==
    LET r == move_left(L, h)
    IN  IF n = 0 THEN r ELSE move_left_n_inclusive(r.list, r.heap, n - 1)

RECURSIVE move_left_n(_, _, _)
move_left_n(L, h, n) ==
    IF n = 0 THEN Res(L, h, None)
    ELSE LET r == move_left(L, h) IN move_left_n(r.list, r.heap, n - 1)

\* CyclicList::into_left_n folding with into_right.
RECURSIVE into_left_n_wrong_direction(_, _, _)
into_left_n_wrong_direction(L, h, n) ==
    IF n = 0 THEN Res(L, h, None)
    ELSE LET r == into_right(L, h) IN into_left_n_wrong_direction(r.list, r.heap, n - 1)

\* CyclicList::into_right_n: (0..n).fold(self, |list, _| list.into_right()).
RECURSIVE into_right_n(_, _, _)
into_right_n(L, h, n) ==
    IF n = 0 THEN Res(L, h, None)
    ELSE LET r == into_right(L, h) IN into_right_n(r.list, r.heap, n - 1)

\* CyclicList::into_left_n: (0..n).fold(self, |list, _| list.into_left()).
RECURSIVE into_left_n(_, _, _)
into_left_n(L, h, n) ==
    IF n = 0 THEN Res(L, h, None)
    ELSE LET r == into_left(L, h) IN into_left_n(r.list, r.heap, n - 1)

\* usize::saturating_sub(1).
saturating_sub1(k) == IF k = 0 THEN 0 ELSE k - 1

\* CyclicList::pop_right with a plain `len - 1` taken before the test of
\* self.nodes.
pop_right_early_decrement(L, h) ==
    LET L1 == [L EXCEPT !.len = L.len - 1]
    IN  IF L.nodes # None
        THEN LET r == Node_pop_right(h, L.nodes)
             IN  Res(IF L1.len = 0 THEN [L1 EXCEPT !.nodes = None] ELSE L1, r.heap, r.ret)
        ELSE Res(L1, h, None)

\* CyclicList::pop_right calling Node::pop_left.
pop_right_as_left(L, h) ==
    IF L.nodes # None
    THEN LET L1 == [L EXCEPT !.len = saturating_sub1(L.len)]
             r  == Node_pop_left(h, L.nodes)
         IN  Res(IF L1.len = 0 THEN [L1 EXCEPT !.nodes = None] ELSE L1, r.heap, r.ret)
    ELSE Res(L, h, None)

\* CyclicList::pop_right.
pop_right(L, h) ==
    IF L.nodes # None
    THEN LET L1 == [L EXCEPT !.len = saturating_sub1(L.len)]
             r  == Node_pop_right(h, L.nodes)
         IN  Res(IF L1.len = 0 THEN [L1 EXCEPT !.nodes = None] ELSE L1, r.heap, r.ret)
    ELSE Res(L, h, None)

\* CyclicList::pop_left without `if self.len == 0 { self.nodes = None }`.
pop_left_keep_cursor(L, h) ==
    IF L.nodes # None
    THEN LET L1 == [L EXCEPT !.len = saturating_sub1(L.len)]
             r  == Node_pop_left(h, L.nodes)
         IN  Res(L1, r.heap, r.ret)
    ELSE Res(L, h, None)

\* CyclicList::pop_left.
pop_left(L, h) ==
    IF L.nodes # None
    THEN LET L1 == [L EXCEPT !.len = saturating_sub1(L.len)]
             r  == Node_pop_left(h, L.nodes)
         IN  Res(IF L1.len = 0 THEN [L1 EXCEPT !.nodes = None] ELSE L1, r.heap, r.ret)
    ELSE Res(L, h, None)

\* CyclicList::pop_move_right popping on the right after the move.
pop_move_right_wrong_side(L, h) ==
    LET r == move_right(L, h) IN pop_right(r.list, r.heap)

\* CyclicList::pop_move_right without the move.
pop_move_right_no_move(L, h) == pop_left(L, h)

pop_move_right(L, h) ==
    LET r == move_right(L, h) IN pop_left(r.list, r.heap)

\* CyclicList::pop_move_left without the move.
pop_move_left_no_move(L, h) == pop_right(L, h)

pop_move_left(L, h) ==
    LET r == move_left(L, h) IN pop_right(r.list, r.heap)

\* ---------------------------------------------------------------- actions
PushOps ==
    {"push_right", "push_left", "push_move_right", "push_move_left",
     "push_into_right", "push_into_left"}

PopOps == {"pop_right", "pop_left", "pop_move_right", "pop_move_left"}

MoveOps ==
    {"move_right", "move_left", "move_right_n", "move_left_n",
     "into_right", "into_left", "into_right_n", "into_left_n"}

QueryOps == {"current", "right", "left", "current_mut", "right_mut", "left_mut"}

\* The tally of values pushed and of values returned by pops, kept while
\* mode = "counted".
NoTally == [pushed |-> [v \in Values |-> 0], popped |-> [v \in Values |-> 0]]

\* The sum of t[v] over the values v of S.
RECURSIVE SumOver(_, _)
SumOver(t, S) ==
    IF S = {} THEN 0
    ELSE LET v == CHOOSE x \in S : TRUE IN t[v] + SumOver(t, S \ {v})

Total(t) == SumOver(t, Values)

Tally(led, op, arg, ret) ==
    IF op \in PushOps THEN [led EXCEPT !.pushed[arg] = @ + 1]
    ELSE IF op \in PopOps /\ ret # None THEN [led EXCEPT !.popped[ret] = @ + 1]
    ELSE led

NoCall == [op |-> "none", on |-> "list", arg |-> None, ret |-> None]

Snapshot == [list |-> list, heap |-> heap]

\* The state once CyclicList::new() has returned (mode m = "run"), or before
\* any list is built (m = "init").
Start(m) ==
    /\ heap = EmptyHeap
    /\ list = new
    /\ last = NoCall
    /\ pre = [list |-> new, heap |-> EmptyHeap]
    /\ mode = m
    /\ other = new
    /\ out = <<>>
    /\ snap = <<>>
    /\ iter = [list |-> new, consumed |-> 0]
    /\ absent = 0
    /\ ledger = NoTally
    /\ stale = {}
    /\ ub = FALSE

Init == Start("run")

\* One call on `list`: r is what the call gives back.
Call(op, arg, r) ==
    /\ mode \in {"run", "counted"}
    /\ (mode = "counted" /\ op \in PushOps) => Total(ledger.pushed) < MaxPushes
    /\ ledger' = IF mode = "counted" THEN Tally(ledger, op, arg, r.ret) ELSE ledger
    /\ list' = r.list
    /\ heap' = r.heap
    /\ last' = [op |-> op, on |-> "list", arg |-> arg, ret |-> r.ret]
    /\ pre' = Snapshot
    /\ UNCHANGED <<absent, iter, mode, other, out, snap, stale, ub>>

PushRight ==
    \E n \in FreeNodes(heap), el \in Values :
        Call("push_right", el, push_right(list, heap, n, el))

PushLeft ==
    \E n \in FreeNodes(heap), el \in Values :
        Call("push_left", el, push_left(list, heap, n, el))

PushMoveRight ==
    \E n \in FreeNodes(heap), el \in Values :
        Call("push_move_right", el, push_move_right(list, heap, n, el))

PushMoveLeft ==
    \E n \in FreeNodes(heap), el \in Values :
        Call("push_move_left", el, push_move_left(list, heap, n, el))

MoveRight == Call("move_right", None, move_right(list, heap))

MoveLeft == Call("move_left", None, move_left(list, heap))

MoveRightN == \E n \in 0..MaxN : Call("move_right_n", n, move_right_n(list, heap, n))

MoveLeftN == \E n \in 0..MaxN : Call("move_left_n", n, move_left_n(list, heap, n))

IntoRight == Call("into_right", None, into_right(list, heap))

IntoLeft == Call("into_left", None, into_left(list, heap))

IntoRightN == \E n \in 0..MaxN : Call("into_right_n", n, into_right_n(list, heap, n))

IntoLeftN == \E n \in 0..MaxN : Call("into_left_n", n, into_left_n(list, heap, n))

PushIntoRight ==
    \E n \in FreeNodes(heap), el \in Values :
        Call("push_into_right", el, push_into_right(list, heap, n, el))

PushIntoLeft ==
    \E n \in FreeNodes(heap), el \in Values :
        Call("push_into_left", el, push_into_left(list, heap, n, el))

PopRight == Call("pop_right", None, pop_right(list, heap))

PopLeft == Call("pop_left", None, pop_left(list, heap))

PopMoveRight == Call("pop_move_right", None, pop_move_right(list, heap))

PopMoveLeft == Call("pop_move_left", None, pop_move_left(list, heap))

\* The queries: they return an element (or None) and change nothing.
Current == Call("current", None, Res(list, heap, current(list, heap)))
Right == Call("right", None, Res(list, heap, right(list, heap)))
Left == Call("left", None, Res(list, heap, left(list, heap)))
CurrentMut == Call("current_mut", None, Res(list, heap, current_mut(list, heap)))
RightMut == Call("right_mut", None, Res(list, heap, right_mut(list, heap)))
LeftMut == Call("left_mut", None, Res(list, heap, left_mut(list, heap)))

Pushes ==
    \/ PushRight \/ PushLeft \/ PushMoveRight \/ PushMoveLeft
    \/ PushIntoRight \/ PushIntoLeft

Moves ==
    \/ MoveRight \/ MoveLeft \/ MoveRightN \/ MoveLeftN
    \/ IntoRight \/ IntoLeft \/ IntoRightN \/ IntoLeftN

Pops == PopRight \/ PopLeft \/ PopMoveRight \/ PopMoveLeft

Queries == Current \/ Right \/ Left \/ CurrentMut \/ RightMut \/ LeftMut

Next == Pushes \/ Moves \/ Pops \/ Queries

Spec == Init /\ [][Next]_vars

\* ------------------------------------------------- reading the ring (ghost)
\* The addresses met by following right links from cur until start comes up
\* again (or a null link, or more steps than there are addresses).
RECURSIVE RightWalk(_, _, _, _)
RightWalk(h, start, cur, acc) ==
    IF cur = None \/ Len(acc) > MaxNodes THEN acc
    ELSE IF acc # <<>> /\ cur = start THEN acc
    ELSE RightWalk(h, start, h[cur].right, Append(acc, cur))

\* The ring of L as a sequence of addresses, clockwise from the cursor.
RingNodes(L, h) == IF L.nodes = None THEN <<>> ELSE RightWalk(h, L.nodes, L.nodes, <<>>)

\* The ring of L as a sequence of elements, clockwise from the cursor.
RingValues(L, h) ==
    LET w == RingNodes(L, h) IN [i \in 1..Len(w) |-> h[w[i]].element]

SeqRange(s) == {s[i] : i \in 1..Len(s)}

\* Every address reachable from the cursor through left and right links.
RECURSIVE Closure(_, _, _)
Closure(h, S, k) ==
    IF k = 0 THEN S
    ELSE Closure(h, S \cup (({h[n].right : n \in S} \cup {h[n].left : n \in S}) \ {None}), k - 1)

Reachable(L, h) == IF L.nodes = None THEN {} ELSE Closure(h, {L.nodes}, MaxNodes)

\* ------------------------------------------------------ consuming iterator
\* IntoIter::next.
IntoIter_next(L, h) == pop_move_right(L, h)

\* IntoIterator::into_iter: the list moves into the iterator.
IntoIter ==
    /\ mode = "run"
    /\ mode' = "iter"
    /\ snap' = RingValues(list, heap)
    /\ out' = <<>>
    /\ last' = [op |-> "into_iter", on |-> "list", arg |-> None, ret |-> None]
    /\ pre' = Snapshot
    /\ absent' = 0
    /\ UNCHANGED <<ledger, iter, heap, list, other, stale, ub>>

IntoIterNext ==
    /\ mode = "iter"
    /\ absent < MaxAbsent
    /\ LET r == IntoIter_next(list, heap)
       IN  /\ absent' = IF r.ret = None THEN absent + 1 ELSE absent
           /\ list' = r.list
           /\ heap' = r.heap
           /\ out' = IF r.ret = None THEN out ELSE Append(out, r.ret)
           /\ last' = [op |-> "next", on |-> "list", arg |-> None, ret |-> r.ret]
    /\ pre' = Snapshot
    /\ UNCHANGED <<ledger, iter, mode, other, snap, stale, ub>>

\* IntoIter::size_hint with the lower bound of Iterator's default, 0.
IntoIter_size_hint_default_lower(L) == <<0, len(L)>>

\* IntoIter::size_hint: (self.list.len(), Some(self.list.len())).
IntoIter_size_hint(L) == <<len(L), len(L)>>

IntoIterSizeHint ==
    /\ mode = "iter"
    /\ last' = [op |-> "size_hint", on |-> "list", arg |-> None,
                ret |-> IntoIter_size_hint(list)]
    /\ pre' = Snapshot
    /\ UNCHANGED <<ledger, absent, heap, list, iter, mode, other, out, snap, stale, ub>>

NextDrain == Next \/ IntoIter \/ IntoIterNext \/ IntoIterSizeHint

SpecDrain == Init /\ [][NextDrain]_vars

\* ---------------------------------------------------------------- from_iter
MaxLen == MaxNodes

InputSeqs == UNION {[1..k -> Values] : k \in 0..MaxLen}

\* The addresses the allocator may hand out for k nodes in a row.
AddrSeqs(h, k) ==
    {a \in [1..k -> FreeNodes(h)] : \A i, j \in 1..k : a[i] = a[j] => i = j}

\* The fold of from_iter over s[i..]: push_into_right per element.
RECURSIVE from_iter_fold(_, _, _, _, _)
from_iter_fold(L, h, s, addrs, i) ==
    IF i > Len(s) THEN Res(L, h, None)
    ELSE LET r == push_into_right(L, h, addrs[i], s[i])
         IN  from_iter_fold(r.list, r.heap, s, addrs, i + 1)

\* from_iter without the closing into_right().
from_iter_no_final_step(h, s, addrs) == from_iter_fold(new, h, s, addrs, 1)

\* FromIterator::from_iter.
from_iter(h, s, addrs) ==
    LET r == from_iter_fold(new, h, s, addrs, 1) IN into_right(r.list, r.heap)

FromIter ==
    /\ mode = "init"
    /\ \E s \in InputSeqs :
           \E addrs \in AddrSeqs(heap, Len(s)) :
               LET r == from_iter(heap, s, addrs)
               IN  /\ list' = r.list
                   /\ heap' = r.heap
                   /\ last' = [op |-> "from_iter", on |-> "list", arg |-> s, ret |-> None]
    /\ mode' = "run"
    /\ pre' = Snapshot
    /\ UNCHANGED <<ledger, absent, iter, other, out, snap, stale, ub>>

NextFromIter == FromIter \/ Next

SpecFromIter == Start("init") /\ [][NextFromIter]_vars

\* --------------------------------------------------------------------- drop
\* The list goes out of scope.  CyclicList implements no Drop and its fields
\* (a raw pointer and a usize) have no destructor: no node is freed.
drop(L, h) == Res(L, h, None)

Drop ==
    /\ mode = "run"
    /\ mode' = "dropped"
    /\ LET r == drop(list, heap)
       IN  /\ list' = r.list
           /\ heap' = r.heap
    /\ last' = [op |-> "drop", on |-> "list", arg |-> None, ret |-> None]
    /\ pre' = Snapshot
    /\ UNCHANGED <<ledger, absent, iter, other, out, snap, stale, ub>>

NextDrop == Next \/ Drop

SpecDrop == Init /\ [][NextDrop]_vars

\* -------------------------------------------------------------------- clone
\* #[derive(Clone)]: each field is cloned; the NonNull pointer is copied, the
\* nodes are not.
clone(L) == [nodes |-> L.nodes, len |-> L.len]

Clone ==
    /\ mode = "run"
    /\ mode' = "cloned"
    /\ other' = clone(list)
    /\ last' = [op |-> "clone", on |-> "list", arg |-> None, ret |-> None]
    /\ pre' = Snapshot
    /\ UNCHANGED <<ledger, absent, iter, heap, list, out, snap, stale, ub>>

Handle(w) == IF w = "list" THEN list ELSE other

\* A call on one of the two lists after the clone.  It is defined only while
\* that list's cursor does not point at freed memory.
CallOn(w, op, arg, r) ==
    /\ mode = "cloned"
    /\ ~ub
    /\ w \notin stale
    /\ heap' = r.heap
    /\ list' = IF w = "list" THEN r.list ELSE list
    /\ other' = IF w = "other" THEN r.list ELSE other
    /\ stale' = stale \cup {x \in {"list", "other"} :
                    LET c == IF x = "list" THEN list'.nodes ELSE other'.nodes
                    IN  c # None /\ c \in LiveNodes(heap) \ LiveNodes(r.heap)}
    /\ last' = [op |-> op, on |-> w, arg |-> arg, ret |-> r.ret]
    /\ pre' = Snapshot
    /\ UNCHANGED <<ledger, absent, iter, mode, out, snap, ub>>

ClonedPushRight ==
    \E w \in {"list", "other"}, n \in FreeNodes(heap), el \in Values :
        CallOn(w, "push_right", el, push_right(Handle(w), heap, n, el))

ClonedPushLeft ==
    \E w \in {"list", "other"}, n \in FreeNodes(heap), el \in Values :
        CallOn(w, "push_left", el, push_left(Handle(w), heap, n, el))

ClonedMoveRight ==
    \E w \in {"list", "other"} :
        CallOn(w, "move_right", None, move_right(Handle(w), heap))

ClonedMoveLeft ==
    \E w \in {"list", "other"} :
        CallOn(w, "move_left", None, move_left(Handle(w), heap))

ClonedPopRight ==
    \E w \in {"list", "other"} :
        CallOn(w, "pop_right", None, pop_right(Handle(w), heap))

ClonedPopLeft ==
    \E w \in {"list", "other"} :
        CallOn(w, "pop_left", None, pop_left(Handle(w), heap))

\* Any call that reads the cursor of a list whose current node was freed
\* through the other list: a use after free, after which nothing is known.
UseAfterFree ==
    /\ mode = "cloned"
    /\ ~ub
    /\ \E w \in stale :
           last' = [op |-> "use_after_free", on |-> w, arg |-> None, ret |-> None]
    /\ ub' = TRUE
    /\ pre' = Snapshot
    /\ UNCHANGED <<ledger, absent, iter, heap, list, other, mode, out, snap, stale>>

NextClone ==
    \/ Next
    \/ Clone
    \/ ClonedPushRight \/ ClonedPushLeft
    \/ ClonedMoveRight \/ ClonedMoveLeft
    \/ ClonedPopRight \/ ClonedPopLeft
    \/ UseAfterFree

SpecClone == Init /\ [][NextClone]_vars

\* ------------------------------------------- collect, then pop repeatedly
\* `let mut list: CyclicList<_> = s.into_iter().collect();`
Collect ==
    /\ mode = "init"
    /\ \E s \in InputSeqs :
           \E addrs \in AddrSeqs(heap, Len(s)) :
               LET r == from_iter(heap, s, addrs)
               IN  /\ list' = r.list
                   /\ heap' = r.heap
                   /\ snap' = s
                   /\ last' = [op |-> "from_iter", on |-> "list", arg |-> s, ret |-> None]
    /\ mode' = "built"
    /\ out' = <<>>
    /\ pre' = Snapshot
    /\ UNCHANGED <<ledger, absent, iter, other, stale, ub>>

\* One more call of the same pop (m names it) on the collected list; out
\* gathers the elements returned.
Repeat(m, r) ==
    /\ mode \in {"built", m}
    /\ mode' = m
    /\ list' = r.list
    /\ heap' = r.heap
    /\ out' = IF r.ret = None THEN out ELSE Append(out, r.ret)
    /\ last' = [op |-> m, on |-> "list", arg |-> None, ret |-> r.ret]
    /\ pre' = Snapshot
    /\ UNCHANGED <<ledger, absent, iter, other, snap, stale, ub>>

RepeatPopLeft == Repeat("pop_left", pop_left(list, heap))

RepeatPopMoveLeft == Repeat("pop_move_left", pop_move_left(list, heap))

NextRepeatPop == Collect \/ RepeatPopLeft \/ RepeatPopMoveLeft

SpecRepeatPop == Start("init") /\ [][NextRepeatPop]_vars

\* ------------------------------------------------------ borrowing iterator
\* A fresh Iter over L: its own CyclicList value with L's cursor and len, and
\* nothing consumed yet.
Iter_new(L) == [list |-> [nodes |-> L.nodes, len |-> L.len], consumed |-> 0]

\* What Iter::next gives back: the iterator, the heap and the item.
IterRes(it, h, r) == [iter |-> it, heap |-> h, ret |-> r]

\* Iter::next yielding the current element before it moves.
Iter_next_current_first(it, h) ==
    IF it.consumed = len(it.list) THEN IterRes(it, h, None)
    ELSE LET it1 == [it EXCEPT !.consumed = it.consumed + 1]
             r   == move_right(it1.list, h)
         IN  IterRes([it1 EXCEPT !.list = r.list], r.heap, current(it1.list, h))

\* Iter::next advancing with pop_move_right.
Iter_next_consuming(it, h) ==
    IF it.consumed = len(it.list) THEN IterRes(it, h, None)
    ELSE LET r == pop_move_right(it.list, h)
         IN  IterRes([it EXCEPT !.list = r.list], r.heap, r.ret)

\* Iter::next starting over once it has answered None.
Iter_next_restartable(it, h) ==
    IF it.consumed = len(it.list) THEN IterRes([it EXCEPT !.consumed = 0], h, None)
    ELSE LET it1 == [it EXCEPT !.consumed = it.consumed + 1]
             r   == move_right(it1.list, h)
             it2 == [it1 EXCEPT !.list = r.list]
         IN  IterRes(it2, r.heap, current(it2.list, r.heap))

\* Iter::next.
Iter_next(it, h) ==
    IF it.consumed = len(it.list) THEN IterRes(it, h, None)
    ELSE LET it1 == [it EXCEPT !.consumed = it.consumed + 1]
             r   == move_right(it1.list, h)
             it2 == [it1 EXCEPT !.list = r.list]
         IN  IterRes(it2, r.heap, current(it2.list, r.heap))

\* An Iter is made over the list, which stays borrowed while it is in use.
IterNew ==
    /\ mode = "run"
    /\ mode' = "borrowed"
    /\ iter' = Iter_new(list)
    /\ snap' = RingValues(list, heap)
    /\ out' = <<>>
    /\ last' = [op |-> "iter", on |-> "list", arg |-> None, ret |-> None]
    /\ pre' = Snapshot
    /\ absent' = 0
    /\ UNCHANGED <<ledger, heap, list, other, stale, ub>>

IterNext ==
    /\ mode = "borrowed"
    /\ absent < MaxAbsent
    /\ LET r == Iter_next(iter, heap)
       IN  /\ absent' = IF r.ret = None THEN absent + 1 ELSE absent
           /\ iter' = r.iter
           /\ heap' = r.heap
           /\ out' = IF r.ret = None THEN out ELSE Append(out, r.ret)
           /\ last' = [op |-> "iter_next", on |-> "iter", arg |-> None, ret |-> r.ret]
    /\ pre' = Snapshot
    /\ UNCHANGED <<ledger, list, mode, other, snap, stale, ub>>

\* Iter::size_hint: (self.list.len(), Some(self.list.len())).
Iter_size_hint(it) == <<len(it.list), len(it.list)>>

IterSizeHint ==
    /\ mode = "borrowed"
    /\ last' = [op |-> "size_hint", on |-> "iter", arg |-> None,
                ret |-> Iter_size_hint(iter)]
    /\ pre' = Snapshot
    /\ UNCHANGED <<ledger, absent, heap, list, iter, mode, other, out, snap, stale, ub>>

NextIter == Next \/ IterNew \/ IterNext \/ IterSizeHint

SpecIter == Init /\ [][NextIter]_vars

\* ----------------------------------------------------------- both iterators
NextIterators ==
    \/ Next
    \/ IntoIter \/ IntoIterNext \/ IntoIterSizeHint
    \/ IterNew \/ IterNext \/ IterSizeHint

SpecIterators == Init /\ [][NextIterators]_vars

\* ----------------------------------------------------------------- claims
\* C1: after any sequence of pushes, moves and pops, every node n of the ring
\* satisfies n.right.left == n and n.left.right == n, and is the right
\* neighbour of exactly one node and the left neighbour of exactly one node.
C1_MutualConsistency ==
    \A n \in Reachable(list, heap) :
        /\ heap[n].live
        /\ heap[n].right # None /\ heap[n].left # None
        /\ heap[heap[n].right].left = n
        /\ heap[heap[n].left].right = n
        /\ Cardinality({m \in NodeIds : heap[m].right = n}) = 1
        /\ Cardinality({m \in NodeIds : heap[m].left = n}) = 1

\* A ring of three nodes that a pop has just shrunk to two.
C1_Witness ==
    /\ last.op \in PopOps
    /\ pre.list.len = 3
    /\ list.len = 2
    /\ heap[list.nodes].right # list.nodes

\* C2: len() equals the number of distinct nodes met by following right links
\* from the current node until it comes up again, 0 for the empty list.
C2_LengthAccuracy == len(list) = Cardinality(SeqRange(RingNodes(list, heap)))

\* A push onto a ring of one node: two nodes are allocated and counted.
C2_Witness ==
    /\ last.op \in PushOps
    /\ pre.list.len = 1
    /\ pre.heap # EmptyHeap
    /\ len(list) = 2
    /\ Cardinality(LiveNodes(heap)) = 2

\* C3: when a list that still holds n >= 1 nodes is dropped, each of them is
\* deallocated: no node remains allocated after the drop.
C3_DropFreesAll ==
    (mode = "dropped" /\ pre.list.len >= 1) => LiveNodes(heap) = {}

\* C4: a clone is a ring of newly allocated nodes with equal elements and an
\* equivalent cursor; the two lists share no node, a call on one leaves the
\* other's ring, length and elements as they were, and neither ever points at
\* a freed node.
C4_CloneIndependent ==
    mode = "cloned" =>
        /\ SeqRange(RingNodes(list, heap)) \cap SeqRange(RingNodes(other, heap)) = {}
        /\ RingValues(other, heap) = (IF last.op = "clone" THEN RingValues(list, heap)
                                       ELSE IF last.on = "list" THEN RingValues(other, pre.heap)
                                       ELSE RingValues(other, heap))
        /\ len(other) = Len(RingNodes(other, heap))
        /\ len(list) = Len(RingNodes(list, heap))
        /\ stale = {}
        /\ ~ub

\* C5: repeated pop_move_right() (the consuming iterator) on a list of length
\* n yields exactly n values, the value at the original current first and the
\* rest in clockwise order, each once; then the list is empty and the next
\* call returns absent.
C5_DrainCompleteness ==
    mode = "iter" =>
        /\ out \o RingValues(list, heap) = snap
        /\ Len(out) + len(list) = Len(snap)
        /\ (is_empty(list) <=> Len(out) = Len(snap))
        /\ (last.op = "next" /\ pre.list.len >= 1) =>
               /\ last.ret = pre.heap[pre.list.nodes].element
               /\ last.ret = snap[Len(out)]
        /\ (last.op = "next" /\ pre.list.len = 0) =>
               /\ last.ret = None
               /\ out = snap
               /\ is_empty(list)

\* A ring of three drained to the end, and one more call answered absent.
C5_Witness ==
    /\ mode = "iter"
    /\ Len(snap) = 3
    /\ snap[1] # snap[2]
    /\ out = snap
    /\ last.op = "next"
    /\ last.ret = None
    /\ is_empty(list)

\* C6: from_iter(s) yields a ring with len() == |s| whose clockwise order
\* from the cursor is s: current() is the first element, right() the second
\* (the first when |s| == 1), left() the last; the empty list for empty s.
C6_ConstructionOrder ==
    last.op = "from_iter" =>
        LET s == last.arg
        IN  /\ len(list) = Len(s)
            /\ RingValues(list, heap) = s
            /\ Cardinality(LiveNodes(heap)) = Len(s)
            /\ s = <<>> => (list = new /\ is_empty(list))
            /\ s # <<>> =>
                   /\ current(list, heap) = s[1]
                   /\ right(list, heap) = s[IF Len(s) = 1 THEN 1 ELSE 2]
                   /\ left(list, heap) = s[Len(s)]

\* A list built from three elements whose first differs from the other two.
C6_Witness ==
    /\ last.op = "from_iter"
    /\ Len(last.arg) = 3
    /\ last.arg[1] # last.arg[2]
    /\ last.arg[1] # last.arg[3]
    /\ current(list, heap) = last.arg[1]
    /\ left(list, heap) = last.arg[3]

\* C7: on a list of length n >= 1, n single steps to the right bring the
\* cursor back to the node it started on, and so do n single steps to the
\* left; no smaller positive number of steps does.
C7_RingClosure ==
    (/\ last.op \in {"move_right_n", "move_left_n"}
     /\ pre.list.len >= 1
     /\ last.arg \in 1..pre.list.len)
    => (list.nodes = pre.list.nodes <=> last.arg = pre.list.len)

\* Three steps to the left around a ring of three.
C7_Witness ==
    /\ last.op = "move_left_n"
    /\ pre.list.len = 3
    /\ last.arg = 3
    /\ list.nodes = pre.list.nodes

\* C8: in every reachable state, push_right(v) followed at once by
\* pop_right() returns v and gives back the state before the insertion:
\* the same length, the same current node and the same links.
C8_PushPopInverse ==
    \A n \in FreeNodes(heap), v \in Values :
        LET a == push_right(list, heap, n, v)
            b == pop_right(a.list, a.heap)
        IN  /\ b.ret = v
            /\ b.list = list
            /\ b.heap = heap

\* pop_right() has just undone a push_right(v) on a ring of two: the state
\* it acted on is push_right(v) of the state it left.
C8_Witness ==
    /\ last.op = "pop_right"
    /\ len(list) = 2
    /\ \E n \in FreeNodes(heap) :
           /\ last.ret \in Values
           /\ pre = [list |-> push_right(list, heap, n, last.ret).list,
                     heap |-> push_right(list, heap, n, last.ret).heap]

\* C9: on an empty list every query and every removal returns absent and
\* every move is a no-op; afterwards the list is still empty, len() == 0.
C9_EmptySafety ==
    (/\ pre.list = new
     /\ pre.heap = EmptyHeap
     /\ last.op \in PopOps \cup MoveOps \cup QueryOps)
    => /\ last.ret = None
       /\ list.nodes = None
       /\ len(list) = 0
       /\ is_empty(list)
       /\ heap = EmptyHeap

\* A removal has been called on the empty list.
C9_Witness ==
    /\ last.op = "pop_move_left"
    /\ pre.list = new
    /\ pre.heap = EmptyHeap
    /\ is_empty(list)

\* C10: on a list of length >= 2, pop_right() returns the element of the node
\* right of current and never current; the cursor stays, len() drops by 1,
\* the removed node is freed and its former neighbours are linked together.
C10_PopRight ==
    (last.op = "pop_right" /\ pre.list.len >= 2)
    => LET c  == pre.list.nodes
           r  == pre.heap[c].right
           rr == pre.heap[r].right
       IN  /\ r # c
           /\ last.ret = pre.heap[r].element
           /\ list.nodes = c
           /\ len(list) = pre.list.len - 1
           /\ heap[c].live /\ ~heap[r].live
           /\ heap[c].element = pre.heap[c].element
           /\ heap[c].right = rr
           /\ heap[rr].left = c

\* pop_right() on a ring of three whose left and right neighbours differ.
C10_Witness ==
    /\ last.op = "pop_right"
    /\ pre.list.len = 3
    /\ pre.heap[pre.list.nodes].right # pre.heap[pre.list.nodes].left
    /\ last.ret \in Values

\* C11: on a list of length 1, pop_right() and pop_left() each return the
\* current element and leave the list empty (current absent, len() == 0,
\* is_empty()); a following pop returns absent.
C11_PopLastNode ==
    (last.op \in {"pop_right", "pop_left"} /\ pre.list.len = 1)
    => /\ last.ret = pre.heap[pre.list.nodes].element
       /\ last.ret \in Values
       /\ is_empty(list)
       /\ len(list) = 0
       /\ current(list, heap) = None
       /\ LiveNodes(heap) = {}
       /\ pop_right(list, heap).ret = None
       /\ pop_left(list, heap).ret = None
       /\ pop_right(list, heap).list = list
       /\ pop_left(list, heap).list = list

\* pop_left() has just removed the only node.
C11_Witness ==
    /\ last.op = "pop_left"
    /\ pre.list.len = 1
    /\ last.ret \in Values
    /\ is_empty(list)

\* C12: push_right(v) on a non-empty list inserts one new node holding v right
\* of current without moving the cursor; the former right neighbour becomes
\* the new node's right neighbour.  On an empty list the new node becomes
\* current, linked to itself.
C12_PushRight ==
    /\ (last.op = "push_right" /\ pre.list.len >= 1) =>
           LET c == pre.list.nodes
               r == pre.heap[c].right
               n == heap[c].right
           IN  /\ list.nodes = c
               /\ current(list, heap) = current(pre.list, pre.heap)
               /\ len(list) = pre.list.len + 1
               /\ right(list, heap) = last.arg
               /\ n \notin LiveNodes(pre.heap)
               /\ LiveNodes(heap) = LiveNodes(pre.heap) \cup {n}
               /\ heap[n].left = c
               /\ heap[n].right = r
               /\ heap[r].left = n
    /\ (last.op = "push_right" /\ pre.list.len = 0) =>
           /\ list.nodes # None
           /\ len(list) = 1
           /\ LiveNodes(heap) = {list.nodes}
           /\ current(list, heap) = last.arg
           /\ heap[list.nodes].left = list.nodes
           /\ heap[list.nodes].right = list.nodes

\* push_right on a ring of two: the new node sits between current and its
\* former right neighbour, which is not current.
C12_Witness ==
    /\ last.op = "push_right"
    /\ pre.list.len = 2
    /\ heap[heap[list.nodes].right].right # list.nodes
    /\ right(list, heap) = last.arg

\* C13: push_left(v) on a non-empty list inserts one new node holding v left
\* of current without moving the cursor; the former left neighbour becomes
\* the new node's left neighbour.  On an empty list the new node becomes
\* current, linked to itself.
C13_PushLeft ==
    /\ (last.op = "push_left" /\ pre.list.len >= 1) =>
           LET c == pre.list.nodes
               l == pre.heap[c].left
               n == heap[c].left
           IN  /\ list.nodes = c
               /\ current(list, heap) = current(pre.list, pre.heap)
               /\ len(list) = pre.list.len + 1
               /\ left(list, heap) = last.arg
               /\ n \notin LiveNodes(pre.heap)
               /\ LiveNodes(heap) = LiveNodes(pre.heap) \cup {n}
               /\ heap[n].right = c
               /\ heap[n].left = l
               /\ heap[l].right = n
    /\ (last.op = "push_left" /\ pre.list.len = 0) =>
           /\ list.nodes # None
           /\ len(list) = 1
           /\ LiveNodes(heap) = {list.nodes}
           /\ current(list, heap) = last.arg
           /\ heap[list.nodes].left = list.nodes
           /\ heap[list.nodes].right = list.nodes

\* push_left on a ring of two.
C13_Witness ==
    /\ last.op = "push_left"
    /\ pre.list.len = 2
    /\ heap[heap[list.nodes].left].left # list.nodes
    /\ left(list, heap) = last.arg

Reverse(s) == [i \in 1..Len(s) |-> s[Len(s) + 1 - i]]

Prefix(s, k) == [i \in 1..k |-> s[i]]

\* C14: pop_left() removes and returns the left neighbour of current; on a
\* list built from s with the cursor on its first element, repeated
\* pop_left() returns the elements of s last to first, the first element
\* (current) last of all, and then absent.
C14_RepeatedPopLeft ==
    mode = "pop_left" =>
        /\ Len(out) <= Len(snap)
        /\ out = Prefix(Reverse(snap), Len(out))
        /\ Len(out) + len(list) = Len(snap)
        /\ RingValues(list, heap) = Prefix(snap, len(list))
        /\ pre.list.len >= 1 =>
               LET c == pre.list.nodes
                   l == pre.heap[c].left
               IN  /\ last.ret = pre.heap[l].element
                   /\ LiveNodes(heap) = LiveNodes(pre.heap) \ {l}
                   /\ pre.list.len >= 2 => (l # c /\ list.nodes = c)
                   /\ pre.list.len = 1 => (l = c /\ last.ret = snap[1])
        /\ pre.list.len = 0 =>
               /\ last.ret = None
               /\ out = Reverse(snap)
               /\ is_empty(list)

\* Three elements collected, all popped from the left, and one more call
\* answered absent.
C14_Witness ==
    /\ mode = "pop_left"
    /\ Len(snap) = 3
    /\ snap[1] # snap[3]
    /\ out = Reverse(snap)
    /\ pre.list.len = 0
    /\ last.ret = None

\* C15: repeated pop_move_left() on a list of length n yields exactly n
\* values: the value at the original current, then the rest counter-clockwise
\* (for a list built from [s0..sk]: s0, sk, ..., s1); then the list is empty
\* and the next call returns absent.
C15_RepeatedPopMoveLeft ==
    mode = "pop_move_left" =>
        LET expected == IF snap = <<>> THEN <<>>
                        ELSE <<snap[1]>> \o Reverse(Tail(snap))
        IN  /\ Len(out) <= Len(snap)
            /\ out = Prefix(expected, Len(out))
            /\ Len(out) + len(list) = Len(snap)
            /\ (is_empty(list) <=> Len(out) = Len(snap))
            /\ pre.list.len >= 1 => last.ret = pre.heap[pre.list.nodes].element
            /\ pre.list.len = 0 =>
                   /\ last.ret = None
                   /\ out = expected
                   /\ is_empty(list)

\* Three elements collected and drained counter-clockwise, and one more call
\* answered absent.
C15_Witness ==
    /\ mode = "pop_move_left"
    /\ Len(snap) = 3
    /\ snap[2] # snap[3]
    /\ out = <<snap[1], snap[3], snap[2]>>
    /\ pre.list.len = 0
    /\ last.ret = None

\* C16: push_move_right(v) makes the new node current: current() == v, and on
\* a non-empty list left() is the previous current and right() the previous
\* right neighbour; push_move_left(v) is the mirror image.  From the empty
\* list, push_move_right(a) then push_move_right(b) gives current() == b,
\* left() == a and right() == a.
C16_PushMove ==
    /\ (last.op = "push_move_right" /\ pre.list.len >= 1) =>
           LET c == pre.list.nodes
               n == list.nodes
           IN  /\ n \notin LiveNodes(pre.heap)
               /\ LiveNodes(heap) = LiveNodes(pre.heap) \cup {n}
               /\ len(list) = pre.list.len + 1
               /\ current(list, heap) = last.arg
               /\ heap[n].left = c
               /\ heap[n].right = pre.heap[c].right
               /\ left(list, heap) = current(pre.list, pre.heap)
               /\ right(list, heap) = right(pre.list, pre.heap)
    /\ (last.op = "push_move_left" /\ pre.list.len >= 1) =>
           LET c == pre.list.nodes
               n == list.nodes
           IN  /\ n \notin LiveNodes(pre.heap)
               /\ LiveNodes(heap) = LiveNodes(pre.heap) \cup {n}
               /\ len(list) = pre.list.len + 1
               /\ current(list, heap) = last.arg
               /\ heap[n].right = c
               /\ heap[n].left = pre.heap[c].left
               /\ right(list, heap) = current(pre.list, pre.heap)
               /\ left(list, heap) = left(pre.list, pre.heap)
    /\ (last.op \in {"push_move_right", "push_move_left"} /\ pre.list.len = 0) =>
           /\ len(list) = 1
           /\ current(list, heap) = last.arg
           /\ left(list, heap) = last.arg
           /\ right(list, heap) = last.arg
    /\ (list = new /\ heap = EmptyHeap) =>
           \A a, b \in Values : \A n1, n2 \in NodeIds :
               n1 # n2 =>
               LET r1 == push_move_right(list, heap, n1, a)
                   r2 == push_move_right(r1.list, r1.heap, n2, b)
               IN  /\ current(r2.list, r2.heap) = b
                   /\ left(r2.list, r2.heap) = a
                   /\ right(r2.list, r2.heap) = a
                   /\ len(r2.list) = 2

\* push_move_right(a) on the empty list, then push_move_right(b) with b # a.
C16_Witness ==
    /\ last.op = "push_move_right"
    /\ \E n \in NodeIds, a \in Values :
           /\ pre.list = push_move_right(new, EmptyHeap, n, a).list
           /\ pre.heap = push_move_right(new, EmptyHeap, n, a).heap
           /\ a # last.arg
           /\ left(list, heap) = a
           /\ right(list, heap) = a
    /\ current(list, heap) = last.arg

\* The node n single `right` (resp. `left`) links away from c.
RECURSIVE StepRight(_, _, _)
StepRight(h, c, n) == IF n = 0 THEN c ELSE StepRight(h, h[c].right, n - 1)

RECURSIVE StepLeft(_, _, _)
StepLeft(h, c, n) == IF n = 0 THEN c ELSE StepLeft(h, h[c].left, n - 1)

\* The index (from 0) of node x in the walk w.
Pos(w, x) == (CHOOSE j \in 1..Len(w) : w[j] = x) - 1

\* C17: on a ring of length L >= 1 indexed 0..L-1 clockwise from any origin,
\* with the cursor at index i, move_right_n(n) leaves the cursor at index
\* (i + n) mod L and move_left_n(n) at (i - n) mod L, for every n >= 0; both
\* equal n single steps.
C17_MoveN ==
    (last.op \in {"move_right_n", "move_left_n"} /\ pre.list.len >= 1) =>
        LET c == pre.list.nodes
            n == last.arg
            L == pre.list.len
        IN  /\ heap = pre.heap
            /\ len(list) = L
            /\ list.nodes = (IF last.op = "move_right_n" THEN StepRight(pre.heap, c, n)
                             ELSE StepLeft(pre.heap, c, n))
            /\ \A o \in SeqRange(RingNodes(pre.list, pre.heap)) :
                   LET w == RightWalk(pre.heap, o, o, <<>>)
                   IN  /\ Len(w) = L
                       /\ list.nodes \in SeqRange(w)
                       /\ Pos(w, list.nodes) =
                              (IF last.op = "move_right_n" THEN (Pos(w, c) + n) % L
                               ELSE (Pos(w, c) - n) % L)

\* move_left_n(n) with n larger than the ring of three it walks.
C17_Witness ==
    /\ last.op = "move_left_n"
    /\ pre.list.len = 3
    /\ last.arg > pre.list.len
    /\ list.nodes = pre.heap[pre.list.nodes].left

\* C18: each consuming variant produces exactly the list state its mutating
\* counterpart produces from the same starting state.
C18_ConsumingVariants ==
    LET post == [list |-> list, heap |-> heap]
        Same(r) == post = [list |-> r.list, heap |-> r.heap]
    IN  /\ last.op = "into_right" => Same(move_right(pre.list, pre.heap))
        /\ last.op = "into_left" => Same(move_left(pre.list, pre.heap))
        /\ last.op = "into_right_n" => Same(move_right_n(pre.list, pre.heap, last.arg))
        /\ last.op = "into_left_n" => Same(move_left_n(pre.list, pre.heap, last.arg))
        /\ last.op = "push_into_right" =>
               \E n \in FreeNodes(pre.heap) :
                   /\ list.nodes = n
                   /\ Same(push_move_right(pre.list, pre.heap, n, last.arg))
        /\ last.op = "push_into_left" =>
               \E n \in FreeNodes(pre.heap) :
                   /\ list.nodes = n
                   /\ Same(push_move_left(pre.list, pre.heap, n, last.arg))

\* into_left_n(2) on a ring of three: the cursor has moved.
C18_Witness ==
    /\ last.op = "into_left_n"
    /\ last.arg = 2
    /\ pre.list.len = 3
    /\ list.nodes = pre.heap[pre.list.nodes].right

\* C19: non-consuming iteration over a list of length n produces exactly n
\* items and then ends: the element right of the starting cursor first, the
\* rest in clockwise order, the starting cursor's own element last, with the
\* iterator's cursor back on the starting node; nothing on an empty list.
C19_IterOrder ==
    mode = "borrowed" =>
        LET n   == Len(snap)
            rot == IF n = 0 THEN <<>> ELSE Tail(snap) \o <<Head(snap)>>
        IN  /\ iter.consumed = Len(out)
            /\ Len(out) <= n
            /\ out = Prefix(rot, Len(out))
            /\ (Iter_next(iter, heap).ret = None <=> Len(out) = n)
            /\ (last.op = "iter_next" /\ last.ret = None) => out = rot
            /\ Len(out) = n => iter.list.nodes = list.nodes
            /\ (n >= 1 /\ Len(out) = n) => out[n] = current(list, heap)
            /\ (n >= 1 /\ Len(out) >= 1) => out[1] = right(list, heap)

\* A ring of three iterated to the end, and one more call answered absent.
C19_Witness ==
    /\ mode = "borrowed"
    /\ Len(snap) = 3
    /\ snap[1] # snap[2]
    /\ out = Tail(snap) \o <<Head(snap)>>
    /\ last.op = "iter_next"
    /\ last.ret = None

\* C20: advancing the non-consuming iterator leaves the list it was made from
\* unchanged: its cursor, length, links and elements.
C20_IterFrame ==
    mode = "borrowed" =>
        /\ heap = pre.heap
        /\ list = pre.list
        /\ len(list) = Len(snap)
        /\ RingValues(list, heap) = snap

\* The iterator is two items into a ring of three; its cursor is no longer
\* the list's.
C20_Witness ==
    /\ mode = "borrowed"
    /\ last.op = "iter_next"
    /\ len(list) = 3
    /\ iter.consumed = 2
    /\ iter.list.nodes # list.nodes

\* C21: at every point of non-consuming iteration, the lower and the upper
\* bound size_hint reports both equal the number of items not yet produced:
\* the list's length minus the number of items already returned.
C21_IterSizeHint ==
    mode = "borrowed" =>
        /\ Iter_size_hint(iter) = <<Len(snap) - Len(out), Len(snap) - Len(out)>>
        /\ last.op = "size_hint" => last.ret = <<len(list) - iter.consumed,
                                                 len(list) - iter.consumed>>

\* C22: at every point of consuming iteration, the lower and the upper bound
\* size_hint reports both equal the number of items not yet produced; each
\* item returned lowers it by exactly 1, down to 0.
C22_IntoIterSizeHint ==
    mode = "iter" =>
        LET remaining == Len(snap) - Len(out)
        IN  /\ IntoIter_size_hint(list) = <<remaining, remaining>>
            /\ remaining >= 0
            /\ last.op = "size_hint" => last.ret = <<remaining, remaining>>
            /\ (last.op = "next" /\ last.ret # None) =>
                   IntoIter_size_hint(list)[1] = IntoIter_size_hint(pre.list)[1] - 1
            /\ (last.op = "next" /\ last.ret = None) =>
                   /\ IntoIter_size_hint(pre.list) = <<0, 0>>
                   /\ IntoIter_size_hint(list) = <<0, 0>>
            /\ out = snap => IntoIter_size_hint(list) = <<0, 0>>

\* size_hint asked for after two of three items are out: it reports 1.
C22_Witness ==
    /\ mode = "iter"
    /\ last.op = "size_hint"
    /\ Len(snap) = 3
    /\ Len(out) = 2
    /\ last.ret = <<1, 1>>

\* C23: both iterators are fused: once next() has returned absent, which
\* happens after length items, every later call of next() on that iterator
\* returns absent as well and no further element is produced.
C23_Fused ==
    /\ (mode = "iter" /\ absent >= 1) =>
           /\ last.op = "next" => last.ret = None
           /\ Len(out) = Len(snap)
           /\ is_empty(list)
           /\ IntoIter_next(list, heap).ret = None
    /\ (mode = "borrowed" /\ absent >= 1) =>
           /\ last.op = "iter_next" => last.ret = None
           /\ Len(out) = Len(snap)
           /\ iter.consumed = len(iter.list)
           /\ Iter_next(iter, heap).ret = None

\* A borrowing iterator over a ring of three that has answered absent, and
\* has been asked again.
C23_Witness ==
    /\ mode = "borrowed"
    /\ Len(snap) = 3
    /\ absent = 2
    /\ last.op = "iter_next"
    /\ last.ret = None
    /\ Len(out) = 3

\* The same for the consuming iterator.
C23_WitnessIntoIter ==
    /\ mode = "iter"
    /\ Len(snap) = 3
    /\ absent = 2
    /\ last.op = "next"
    /\ last.ret = None
    /\ Len(out) = 3

\* C24: in every state reachable by pushes, moves and pops the current-node
\* reference is absent iff len() == 0, so is_empty() is true iff len() == 0,
\* and the decrement in a pop is never applied to a length of 0.
C24_EmptyIffZero ==
    /\ list.nodes = None <=> len(list) = 0
    /\ is_empty(list) <=> len(list) = 0
    /\ (last.op \in PopOps /\ pre.list.nodes # None) =>
           /\ pre.list.len >= 1
           /\ len(list) = pre.list.len - 1
           /\ last.ret # None
    /\ (last.op \in PopOps /\ pre.list.nodes = None) =>
           /\ len(list) = 0
           /\ last.ret = None

\* pop_move_right() has taken a list of two nodes down to one, and the cursor
\* is still there.
C24_Witness ==
    /\ last.op = "pop_move_right"
    /\ pre.list.len = 2
    /\ len(list) = 1
    /\ ~is_empty(list)

\* C25: whenever len() == 1, however that state came about, the current node
\* is linked to itself on both sides, so left() and right() yield the same
\* element as current().
C25_SingleSelfLinked ==
    len(list) = 1 =>
        /\ list.nodes # None
        /\ heap[list.nodes].live
        /\ heap[list.nodes].left = list.nodes
        /\ heap[list.nodes].right = list.nodes
        /\ left(list, heap) = current(list, heap)
        /\ right(list, heap) = current(list, heap)
        /\ current(list, heap) \in Values

\* A pop has shrunk a ring of two to the node that was current.
C25_Witness ==
    /\ last.op = "pop_left"
    /\ pre.list.len = 2
    /\ len(list) = 1
    /\ list.nodes = pre.list.nodes
    /\ pre.heap[pre.list.nodes].left # pre.list.nodes

\* The links of an allocated node point at allocated nodes.
LinksLive ==
    \A n \in LiveNodes(heap) : heap[n].left \in LiveNodes(heap) /\ heap[n].right \in LiveNodes(heap)

\* The node a successful pop unlinks, in the ring as it was before the call.
Unlinked(op, L, h) ==
    IF op = "pop_right" THEN h[L.nodes].right
    ELSE IF op = "pop_left" THEN h[L.nodes].left
    ELSE L.nodes

\* C26: the set of allocated nodes always equals the set of nodes in the
\* ring: each push allocates exactly one node, each successful pop frees
\* exactly the node it unlinked, and neither the cursor nor any link ever
\* refers to a freed node.
C26_AllocatedIsRing ==
    /\ LiveNodes(heap) = SeqRange(RingNodes(list, heap))
    /\ LiveNodes(heap) = Reachable(list, heap)
    /\ LinksLive
    /\ list.nodes # None => heap[list.nodes].live
    /\ last.op \in PushOps =>
           /\ LiveNodes(pre.heap) \subseteq LiveNodes(heap)
           /\ Cardinality(LiveNodes(heap) \ LiveNodes(pre.heap)) = 1
    /\ (last.op \in PopOps /\ pre.list.nodes # None) =>
           /\ LiveNodes(heap) = LiveNodes(pre.heap) \ {Unlinked(last.op, pre.list, pre.heap)}
           /\ Unlinked(last.op, pre.list, pre.heap) \in LiveNodes(pre.heap)
           /\ \A n \in LiveNodes(heap) :
                  /\ heap[n].left # Unlinked(last.op, pre.list, pre.heap)
                  /\ heap[n].right # Unlinked(last.op, pre.list, pre.heap)
    /\ (last.op \in PopOps /\ pre.list.nodes = None) => heap = pre.heap
    /\ last.op \in MoveOps \cup QueryOps => heap = pre.heap

\* pop_right() has freed the right neighbour in a ring of three; the two
\* nodes left are the ring.
C26_Witness ==
    /\ last.op = "pop_right"
    /\ pre.list.len = 3
    /\ Cardinality(LiveNodes(heap)) = 2
    /\ ~heap[pre.heap[pre.list.nodes].right].live

\* C27: pop_move_right() on a list of length >= 2 with current c, left
\* neighbour l and right neighbour r returns c's element, makes r current,
\* lowers len() by 1 and leaves l and r linked to each other; on a list of
\* length 1 it returns the current element and empties the list.
C27_PopMoveRight ==
    /\ (last.op = "pop_move_right" /\ pre.list.len >= 2) =>
           LET c == pre.list.nodes
               l == pre.heap[c].left
               r == pre.heap[c].right
           IN  /\ last.ret = pre.heap[c].element
               /\ list.nodes = r
               /\ r # c
               /\ len(list) = pre.list.len - 1
               /\ ~heap[c].live
               /\ heap[r].left = l
               /\ heap[l].right = r
               /\ left(list, heap) = pre.heap[l].element
               /\ current(list, heap) = pre.heap[r].element
    /\ (last.op = "pop_move_right" /\ pre.list.len = 1) =>
           /\ last.ret = pre.heap[pre.list.nodes].element
           /\ last.ret \in Values
           /\ list = new
           /\ heap = EmptyHeap

\* pop_move_right() on a ring of three whose neighbours hold different
\* elements.
C27_Witness ==
    /\ last.op = "pop_move_right"
    /\ pre.list.len = 3
    /\ left(pre.list, pre.heap) # right(pre.list, pre.heap)
    /\ left(list, heap) = left(pre.list, pre.heap)
    /\ current(list, heap) = right(pre.list, pre.heap)

\* The sequence s without its i-th item.
Without(s, i) == [j \in 1..(Len(s) - 1) |-> IF j < i THEN s[j] ELSE s[j + 1]]

\* The sequence s read from its (k+1)-th item round to its k-th.
Rot(s, k) == [j \in 1..Len(s) |-> s[((j - 1 + k) % Len(s)) + 1]]

Rotations(s) == {Rot(s, k) : k \in 0..Len(s)}

\* The elements held at the addresses of the walk w.
ValuesAt(w, h) == [i \in 1..Len(w) |-> h[w[i]].element]

\* The last call was a push, or a pop that found a node.
Structural == last.op \in PushOps \/ (last.op \in PopOps /\ pre.list.nodes # None)

\* The ring before the last call, clockwise from the cursor, without the node
\* the call removed (if it was a pop).
KeptBefore ==
    LET w == RingNodes(pre.list, pre.heap)
    IN  IF last.op \in PopOps
        THEN Without(w, 1 + Pos(w, CHOOSE n \in LiveNodes(pre.heap) : ~heap[n].live))
        ELSE w

\* The ring after the last call, clockwise from the cursor, without the node
\* the call inserted (if it was a push).
KeptAfter ==
    LET w == RingNodes(list, heap)
    IN  IF last.op \in PushOps
        THEN Without(w, 1 + Pos(w, CHOOSE n \in LiveNodes(heap) : ~pre.heap[n].live))
        ELSE w

\* C28 as stated: every push and every pop leaves the reading of the ring
\* clockwise from the cursor the same sequence of elements, once the inserted
\* or removed element is deleted from it.
C28_SameSequence ==
    Structural => ValuesAt(KeptAfter, heap) = ValuesAt(KeptBefore, pre.heap)

\* C28, amended: every push and every pop preserves the cyclic order of the
\* other elements: the two readings are the same sequence up to rotation.
\* They are the very same sequence for every push and pop but three:
\* after push_move_right / push_into_right the reading starts one place
\* further clockwise, and after pop_move_left one place further
\* counter-clockwise.
C28_CyclicOrder ==
    Structural =>
        /\ KeptAfter \in Rotations(KeptBefore)
        /\ \A n \in SeqRange(KeptAfter) : heap[n].element = pre.heap[n].element
        /\ last.op \in {"push_move_right", "push_into_right"} => KeptAfter = Rot(KeptBefore, 1)
        /\ last.op = "pop_move_left" => KeptBefore = Rot(KeptAfter, 1)
        /\ last.op \notin {"push_move_right", "push_into_right", "pop_move_left"} =>
               KeptAfter = KeptBefore

\* push_move_right on a ring of two different elements: the other elements
\* read from the new cursor start with the former right neighbour.
C28_Witness ==
    /\ last.op = "push_move_right"
    /\ pre.list.len = 2
    /\ current(pre.list, pre.heap) # right(pre.list, pre.heap)
    /\ ValuesAt(KeptAfter, heap) # ValuesAt(KeptBefore, pre.heap)
    /\ KeptAfter = Rot(KeptBefore, 1)

\* ------------------------------------------ pushes and pops, with a tally
NextTally ==
    \/ PushRight \/ PushLeft \/ PushMoveRight \/ PushMoveLeft
    \/ MoveRight \/ MoveLeft
    \/ PopRight \/ PopLeft \/ PopMoveRight \/ PopMoveLeft

SpecTally == Start("counted") /\ [][NextTally]_vars

\* How many times v occurs in the sequence s.
Count(s, v) == Cardinality({i \in 1..Len(s) : s[i] = v})

\* C29: for any sequence of pushes, moves and pops from the empty list, the
\* values returned by successful pops together with the values still in the
\* ring are, as a multiset, the values pushed: none lost, none duplicated,
\* none returned twice.
C29_Conservation ==
    \A v \in Values :
        ledger.popped[v] + Count(RingValues(list, heap), v) = ledger.pushed[v]

\* Four pushes, two of them of the same value, and two pops: a node's address
\* has been used twice.
C29_Witness ==
    /\ Total(ledger.pushed) = MaxPushes
    /\ Total(ledger.popped) = 2
    /\ \E v \in Values : ledger.pushed[v] >= 2 /\ ledger.popped[v] = 1
    /\ len(list) = 2
    /\ last.op \in PopOps

\* C30: move_right() and move_left() change only the cursor: len(), every
\* node's links and every element stay as they were; and each undoes the
\* other: in every reachable state move_right() then move_left(), or the
\* reverse, gives back exactly that state.
C30_MovesInverse ==
    /\ last.op \in {"move_right", "move_left"} =>
           /\ heap = pre.heap
           /\ len(list) = pre.list.len
           /\ list = [pre.list EXCEPT !.nodes = list.nodes]
    /\ LET r  == move_right(list, heap)
           rl == move_left(r.list, r.heap)
           l  == move_left(list, heap)
           lr == move_right(l.list, l.heap)
       IN  /\ rl.list = list /\ rl.heap = heap
           /\ lr.list = list /\ lr.heap = heap
           /\ r.heap = heap /\ l.heap = heap
           /\ len(r.list) = len(list) /\ len(l.list) = len(list)

\* move_left() on a ring of three has just taken the cursor back from where
\* move_right() puts it.
C30_Witness ==
    /\ last.op = "move_left"
    /\ len(list) = 3
    /\ pre.list = move_right(list, heap).list
    /\ pre.list.nodes # list.nodes
    /\ pre.list.nodes # move_left(list, heap).list.nodes

====
